---- MODULE Spec2Model ----
(***************************************************************************)
(* A model of cryptowelder's MetricWelder (src/cryptowelder/metric.py):    *)
(* the rate table built from ticker quotes, the evaluation of conversion   *)
(* chains against it, the per-kind metric builders and their fan-out in    *)
(* process_metric, the tiered purge of purge_metric and the periodic loops *)
(* of _execute / _wrap.                                                    *)
(***************************************************************************)
EXTENDS Integers, Sequences, FiniteSets, TLC

VARIABLES
    \* ---- rate table and evaluator, applied to drawn inputs ----
    r_pc,          \* "input" | "priced" | "evaluated"
    r_tickers,     \* the ticker batch handed to _calculate_prices
    r_prices,      \* the table _calculate_prices returned
    r_evaluation,  \* the chain handed to _calculate_evaluation
    r_rate         \* what _calculate_evaluation returned

rateVars == <<r_pc, r_tickers, r_prices, r_evaluation, r_rate>>

VARIABLES
    \* ---- process_metric: the collaborator and the configuration ----
    m_focus,       \* the storage collaborator's content: the kind of record that
    m_extra,       \*   has further rows, and those rows
    m_fault,       \* the call of the storage collaborator that raises, if any
    m_base,        \* default_time / get_now(), in seconds
    m_count,       \* property 'timestamp' (default_count when not configured)
    m_threshold,   \* property 'ticker_threshold'
    \* ---- process_metric: the run ----
    m_pc,          \* "idle" | "tickers" | "starting" | "joining" | "returned"
    m_call,        \* which call of process_metric this is (0 before the first)
    m_timestamps,  \* line 69
    m_i,           \* the loop of lines 75-80: timestamps handled so far
    m_prices,      \* what process_ticker returned, per timestamp index
    m_thread,      \* per thread of line 73's list: "new" | "running" | "done"
    m_started,     \* the loop of lines 82-83: threads started so far
    m_joined,      \* the loop of lines 85-86: threads joined so far
    m_save         \* per call, timestamp index and kind: the save_metrics call made

metricConf == <<m_focus, m_extra, m_fault, m_base, m_count, m_threshold>>

metricRun == <<m_pc, m_call, m_timestamps, m_i, m_prices, m_thread, m_started, m_joined, m_save>>

metricVars == <<metricConf, metricRun>>

VARIABLES
    \* ---- purge_metric: the collaborator and the configuration ----
    p_saved,       \* the times of the metrics in storage before the first sweep
    p_override,    \* properties 'purge_0' .. 'purge_4', where configured
    p_fault,       \* the call of the collaborator that raises, if any
    \* ---- purge_metric: the sweeps ----
    p_pc,          \* "idle" | "tiers" | "returned" | "raised"
    p_clock,       \* the clock, in seconds
    p_now,         \* what line 380 read from the clock
    p_sweep,       \* which sweep this is (0 before the first)
    p_idx,         \* the loop of line 382: tiers handled so far
    p_metrics,     \* the times of the metrics in storage
    p_deletes      \* the delete_metrics calls of this sweep that returned

purgeConf == <<p_saved, p_override, p_fault>>

purgeRun == <<p_pc, p_clock, p_now, p_sweep, p_idx, p_metrics, p_deletes>>

purgeVars == <<purgeConf, purgeRun>>

VARIABLES
    \* ---- _execute and its two _wrap loops ----
    e_pc,          \* _execute: "new" | "starting" | "joining" | "terminated"
    e_started,     \* the loop of lines 41-42: threads started so far
    e_joined,      \* the loop of lines 44-45: threads joined so far
    w_closed,      \* what is_closed() returns
    w_pc,          \* per loop: "new" | "check" | "work" | "sleep" | "exit"
    w_outcome,     \* per loop: how func() of this iteration ended, "none" before it has
    w_retry,       \* per loop: the iteration before this one ended in an exception
    w_sleep        \* per loop: the argument of the sleep in progress, 0 outside one

wrapVars == <<e_pc, e_started, e_joined, w_closed, w_pc, w_outcome, w_retry, w_sleep>>

VARIABLES
    \* ---- main_historical ----
    h_pc,          \* "new" | "check" | "step" | "done"
    h_property,    \* property 'timestamp', where configured
    h_now,         \* the clock, in seconds
    h_ticks,       \* how often the clock has moved on during the walk
    h_timestamp,   \* line 411 / 419
    h_steps        \* the process_metric calls made: default_time and line 69's list

histVars == <<h_pc, h_property, h_now, h_ticks, h_timestamp, h_steps>>

vars == <<rateVars, metricVars, purgeVars, wrapVars, histVars>>

(***************************************************************************)
(* Values.  Python's None is NONE for a string-valued field and None for   *)
(* a Decimal- or object-valued one.  A Decimal is an exact rational        *)
(* <<numerator, denominator>> in lowest terms with a positive denominator: *)
(* Decimal's +, * and == are exact and numeric on the values that occur.   *)
(***************************************************************************)
NONE == "None"

None == <<>>

Abs(n) == IF n < 0 THEN -n ELSE n

RECURSIVE GCD(_, _)
GCD(a, b) == IF b = 0 THEN a ELSE GCD(b, a % b)

Normal(n, d) == LET g == GCD(Abs(n), d) IN <<n \div g, d \div g>>

Dec(n) == <<n, 1>>

Add(a, b) == Normal(a[1] * b[2] + b[1] * a[2], a[2] * b[2])

Mul(a, b) == Normal(a[1] * b[1], a[2] * b[2])

_ONE == Dec(1)

_HALF == Normal(1, 2)

_ZERO == Dec(0)

(***************************************************************************)
(* The rate table: prices = defaultdict(lambda: dict()), a mapping         *)
(* site -> (code -> price or None), kept with its key sets.  A key is in   *)
(* the table only once something was stored under it: .get() never adds.   *)
(***************************************************************************)
EmptyTable == <<>>

Store(table, site, code, price) ==
    LET row == IF site \in DOMAIN table THEN table[site] ELSE <<>>
        put == [c \in (DOMAIN row) \cup {code} |-> IF c = code THEN price ELSE row[c]]
    IN  [s \in (DOMAIN table) \cup {site} |-> IF s = site THEN put ELSE table[s]]

\* lines 123-125: a zero field counts as absent (None != ZERO, so None stays None)
NonZero(p) == IF p # None /\ p # _ZERO THEN p ELSE None

\* line 127: the present fields in the order (ask, bid, ltp)
Candidates(ticker) ==
    SelectSeq(<<NonZero(ticker.tk_ask), NonZero(ticker.tk_bid), NonZero(ticker.tk_ltp)>>,
              LAMBDA p : p # None)

\* lines 129-132
PriceOfMeanOfAll(candidates) ==
    IF Len(candidates) = 3
    THEN Normal(candidates[1][1] * candidates[2][2] * candidates[3][2]
                + candidates[2][1] * candidates[1][2] * candidates[3][2]
                + candidates[3][1] * candidates[1][2] * candidates[2][2],
                3 * candidates[1][2] * candidates[2][2] * candidates[3][2])
    ELSE IF Len(candidates) = 2
    THEN Mul(Add(candidates[1], candidates[2]), _HALF)
    ELSE IF Len(candidates) > 0 THEN candidates[1] ELSE None

PriceOf(candidates) ==
    IF Len(candidates) >= 2
    THEN Mul(Add(candidates[1], candidates[2]), _HALF)
    ELSE IF Len(candidates) > 0 THEN candidates[1] ELSE None

\* lines 117-136: the loop over the batch, in order, one store per record
RECURSIVE PricesFrom(_, _)
PricesFrom(table, tickers) ==
    IF tickers = <<>>
    THEN table
    ELSE LET ticker == Head(tickers).ticker
         IN  PricesFrom(Store(table, ticker.tk_site, ticker.tk_code,
                              PriceOf(Candidates(ticker))),
                        Tail(tickers))

_calculate_prices(tickers) == PricesFrom(EmptyTable, tickers)

(***************************************************************************)
(* process_ticker returns None instead of a table when fetch_tickers (or   *)
(* _calculate_prices) raised; a table is wrapped to keep the two apart.    *)
(***************************************************************************)
NoPrices == [isNone |-> TRUE, table |-> EmptyTable]

PricesOf(table) == [isNone |-> FALSE, table |-> table]

\* The outcome of a call that raised instead of returning.
RAISED == <<"raised">>

\* lines 179-181 / 190-192: prices.get(site), then codes.get(code)
Lookup(prices, site, code) ==
    IF prices.isNone
    THEN RAISED                                   \* None has no attribute 'get'
    ELSE IF site \in DOMAIN prices.table /\ code \in DOMAIN prices.table[site]
         THEN prices.table[site][code]
         ELSE None

\* lines 177-186 and 188-197: one leg applied to the running product
Leg(price, prices, site, code) ==
    IF price = None \/ price = RAISED
    THEN price
    ELSE IF site # NONE /\ code # NONE
         THEN LET p == Lookup(prices, site, code)
              IN  IF p = RAISED THEN RAISED
                  ELSE IF p = None \/ p = _ZERO THEN None
                  ELSE Mul(price, p)
         ELSE price

LegSkippingConvert(price, prices, site, code) == price

ConvertLeg(price, prices, site, code) == Leg(price, prices, site, code)

\* lines 170-199
_calculate_evaluation(evaluation, prices) ==
    IF evaluation = None
    THEN None
    ELSE ConvertLeg(Leg(_ONE, prices, evaluation.ev_ticker_site, evaluation.ev_ticker_code),
                    prices, evaluation.ev_convert_site, evaluation.ev_convert_code)

(***************************************************************************)
(* Inputs of the rate table and the evaluator.                             *)
(***************************************************************************)
MaxTickers == 2

Sites == {"siteA", "siteB"}

Codes == {"BTC", "USD"}

\* (ask, bid, ltp): every zero / non-zero pattern with three distinct values,
\* a pair whose mean is zero, and null fields.
Quotes ==
    ({Dec(0), Dec(2)} \X {Dec(0), Dec(4)} \X {Dec(0), Dec(8)})
    \cup {<<Dec(-4), Dec(4), Dec(0)>>, <<None, Dec(4), Dec(8)>>}

RateRecords ==
    { [ticker |-> [tk_site |-> s, tk_code |-> c,
                   tk_ask |-> q[1], tk_bid |-> q[2], tk_ltp |-> q[3]]]
      : s \in Sites, c \in Codes, q \in Quotes }

RECURSIVE SeqsUpTo(_, _)
SeqsUpTo(S, n) ==
    IF n = 0 THEN {<<>>}
    ELSE LET shorter == SeqsUpTo(S, n - 1)
         IN  shorter \cup { Append(q, x) : q \in {p \in shorter : Len(p) = n - 1}, x \in S }

LegRefs == {<<NONE, NONE>>, <<"siteA", NONE>>, <<NONE, "BTC">>}
           \cup (Sites \X Codes)

Evaluations ==
    { [ev_ticker_site |-> t[1], ev_ticker_code |-> t[2],
       ev_convert_site |-> c[1], ev_convert_code |-> c[2]] : t \in LegRefs, c \in LegRefs }

NoEvaluation == [ev_ticker_site |-> NONE, ev_ticker_code |-> NONE,
                 ev_convert_site |-> NONE, ev_convert_code |-> NONE]

\* The parts of the state a specification does not use stay as they are here.
MetricIdle ==
    /\ m_focus = NONE /\ m_extra = <<>> /\ m_fault = None /\ m_base = 0 /\ m_count = 0 /\ m_threshold = 0
    /\ m_pc = "idle" /\ m_call = 0 /\ m_timestamps = <<>> /\ m_i = 0
    /\ m_prices = <<>> /\ m_thread = <<>> /\ m_started = 0 /\ m_joined = 0
    /\ m_save = <<>>

RateIdle ==
    /\ r_pc = "idle" /\ r_tickers = <<>> /\ r_prices = NoPrices
    /\ r_evaluation = None /\ r_rate = None

PurgeIdle ==
    /\ p_saved = {} /\ p_override = <<>> /\ p_fault = None
    /\ p_pc = "idle" /\ p_clock = 0 /\ p_now = 0 /\ p_sweep = 0 /\ p_idx = 0
    /\ p_metrics = {} /\ p_deletes = <<>>

HistIdle ==
    /\ h_pc = "idle" /\ h_property = None /\ h_now = 0 /\ h_ticks = 0
    /\ h_timestamp = 0 /\ h_steps = <<>>

WrapIdle ==
    /\ e_pc = "idle" /\ e_started = 0 /\ e_joined = 0 /\ w_closed = FALSE
    /\ w_pc = <<>> /\ w_outcome = <<>> /\ w_retry = <<>> /\ w_sleep = <<>>

InitRate ==
    /\ r_pc = "input"
    /\ r_tickers \in SeqsUpTo(RateRecords, MaxTickers)
    /\ r_prices = NoPrices
    /\ r_evaluation = None
    /\ r_rate = None
    /\ MetricIdle /\ PurgeIdle /\ WrapIdle /\ HistIdle

CalculatePrices ==
    /\ r_pc = "input"
    /\ r_prices' = PricesOf(_calculate_prices(r_tickers))
    /\ r_pc' = "priced"
    /\ UNCHANGED <<r_tickers, r_evaluation, r_rate, metricVars, purgeVars, wrapVars, histVars>>

CalculateEvaluation ==
    /\ r_pc = "priced"
    /\ \E evaluation \in Evaluations \cup {None} :
          /\ r_evaluation' = evaluation
          /\ r_rate' = _calculate_evaluation(evaluation, r_prices)
    /\ r_pc' = "evaluated"
    /\ UNCHANGED <<r_tickers, r_prices, metricVars, purgeVars, wrapVars, histVars>>

NextRate == CalculatePrices \/ CalculateEvaluation

SpecRate == InitRate /\ [][NextRate]_vars

(***************************************************************************)
(* Claims about the rate table and the evaluator (SpecRate).               *)
(***************************************************************************)
Present(p) == p # None /\ p # _ZERO

Mean(a, b) == Normal(a[1] * b[2] + b[1] * a[2], 2 * a[2] * b[2])

\* The price the rate table is said to hold for one record, case by case.
StatedPrice(t) ==
    CASE Present(t.tk_ask) /\ Present(t.tk_bid)  -> Mean(t.tk_ask, t.tk_bid)
      [] Present(t.tk_ask) /\ ~Present(t.tk_bid) /\ Present(t.tk_ltp)  -> Mean(t.tk_ask, t.tk_ltp)
      [] ~Present(t.tk_ask) /\ Present(t.tk_bid) /\ Present(t.tk_ltp)  -> Mean(t.tk_bid, t.tk_ltp)
      [] Present(t.tk_ask) /\ ~Present(t.tk_bid) /\ ~Present(t.tk_ltp) -> t.tk_ask
      [] ~Present(t.tk_ask) /\ Present(t.tk_bid) /\ ~Present(t.tk_ltp) -> t.tk_bid
      [] ~Present(t.tk_ask) /\ ~Present(t.tk_bid) /\ Present(t.tk_ltp) -> t.tk_ltp
      [] OTHER -> None

SomePresent(t) == Present(t.tk_ask) \/ Present(t.tk_bid) \/ Present(t.tk_ltp)

\* The last record of its (site, code) in the batch: the one whose store stays.
LastOfKey(tickers, i) ==
    \A j \in (i + 1)..Len(tickers) :
        ~(/\ tickers[j].ticker.tk_site = tickers[i].ticker.tk_site
          /\ tickers[j].ticker.tk_code = tickers[i].ticker.tk_code)

\* C1: for every ticker record with a non-zero price field, the price stored for
\* its (site, code) is the mean of the first two non-zero fields in the order
\* ask, bid, last-traded, or the single non-zero field when there is only one.
C1_StoredPrice ==
    r_pc # "input" =>
        \A i \in 1..Len(r_tickers) :
            LET t == r_tickers[i].ticker IN
            (SomePresent(t) /\ LastOfKey(r_tickers, i)) =>
                /\ t.tk_site \in DOMAIN r_prices.table
                /\ t.tk_code \in DOMAIN r_prices.table[t.tk_site]
                /\ r_prices.table[t.tk_site][t.tk_code] = StatedPrice(t)

\* A batch with all three fields non-zero (2, 4, 8) stores 3, and one with the
\* bid zero stores the mean of ask and last-traded, 5.
C1_Witness ==
    /\ r_pc = "priced"
    /\ Len(r_tickers) = 2
    /\ r_tickers[1].ticker.tk_site = "siteA" /\ r_tickers[1].ticker.tk_code = "BTC"
    /\ r_tickers[1].ticker.tk_ask = Dec(2) /\ r_tickers[1].ticker.tk_bid = Dec(4)
    /\ r_tickers[1].ticker.tk_ltp = Dec(8)
    /\ r_tickers[2].ticker.tk_site = "siteB" /\ r_tickers[2].ticker.tk_code = "USD"
    /\ r_tickers[2].ticker.tk_ask = Dec(2) /\ r_tickers[2].ticker.tk_bid = Dec(0)
    /\ r_tickers[2].ticker.tk_ltp = Dec(8)
    /\ r_prices.table["siteA"]["BTC"] = Dec(3)
    /\ r_prices.table["siteB"]["USD"] = Dec(5)

Configured(site, code) == site # NONE /\ code # NONE

Stored(table, site, code) ==
    IF site \in DOMAIN table /\ code \in DOMAIN table[site] THEN table[site][code] ELSE None

LegFails(table, site, code) ==
    Configured(site, code)
    /\ (Stored(table, site, code) = None \/ Stored(table, site, code) = _ZERO)

LegFactor(table, site, code) ==
    IF Configured(site, code) THEN Stored(table, site, code) ELSE Dec(1)

\* The multiplier a chain is said to resolve to against a table.
StatedRate(ev, table) ==
    IF \/ LegFails(table, ev.ev_ticker_site, ev.ev_ticker_code)
       \/ LegFails(table, ev.ev_convert_site, ev.ev_convert_code)
    THEN None
    ELSE LET a == LegFactor(table, ev.ev_ticker_site, ev.ev_ticker_code)
             b == LegFactor(table, ev.ev_convert_site, ev.ev_convert_code)
         IN  Normal(a[1] * b[1], a[2] * b[2])

\* C2: for every chain and every rate table, _calculate_evaluation returns the
\* product of the prices of the configured legs, exactly 1 when no leg is
\* configured, and none when a configured leg's site or code is absent or its
\* stored price is zero or null.
C2_Evaluation ==
    (r_pc = "evaluated" /\ r_evaluation # None) =>
        /\ r_rate = StatedRate(r_evaluation, r_prices.table)
        /\ (~Configured(r_evaluation.ev_ticker_site, r_evaluation.ev_ticker_code)
            /\ ~Configured(r_evaluation.ev_convert_site, r_evaluation.ev_convert_code))
               => r_rate = Dec(1)
        /\ LegFails(r_prices.table, r_evaluation.ev_convert_site, r_evaluation.ev_convert_code)
               => r_rate = None

\* Legs resolving to 2 and 3 give 6.
C2_Witness ==
    /\ r_pc = "evaluated"
    /\ r_evaluation # None
    /\ Configured(r_evaluation.ev_ticker_site, r_evaluation.ev_ticker_code)
    /\ Configured(r_evaluation.ev_convert_site, r_evaluation.ev_convert_code)
    /\ Stored(r_prices.table, r_evaluation.ev_ticker_site, r_evaluation.ev_ticker_code) = Dec(2)
    /\ Stored(r_prices.table, r_evaluation.ev_convert_site, r_evaluation.ev_convert_code) = Dec(3)
    /\ r_rate = Dec(6)

(***************************************************************************)
(* The metric builders.  Times are seconds; a nullable datetime (pr_expr)  *)
(* is None or <<t>>.  Each builder is split into the conversion of one     *)
(* record (None when the record is skipped) and the loop over the batch.   *)
(***************************************************************************)
Metric(type, name, time, amnt) ==
    [mc_type |-> type, mc_name |-> name, mc_time |-> time, mc_amnt |-> amnt]

Minute == 60

\* line 144: tk_time.replace(tzinfo=...) keeps the quote's clock reading, which is
\* what tk_time holds here; the comparison is strict
StaleAtCutoff(tk_time, threshold_cutoff) == tk_time <= threshold_cutoff

Stale(tk_time, threshold_cutoff) == tk_time < threshold_cutoff

\* line 154
Expired(expiry, timestamp) == expiry # None /\ expiry[1] < timestamp

\* lines 138-168
_convert_ticker(timestamp, prices, dto, threshold_minutes) ==
    LET threshold_cutoff == timestamp - threshold_minutes * Minute
        price == Lookup(prices, dto.ticker.tk_site, dto.ticker.tk_code)
        rate  == _calculate_evaluation(dto.fund, prices)
    IN  IF Stale(dto.ticker.tk_time, threshold_cutoff) THEN None
        ELSE IF price = None \/ price = _ZERO \/ dto.product = None THEN None
        ELSE IF Expired(dto.product.pr_expr, timestamp) THEN None
        ELSE IF rate = None THEN None
        ELSE Metric("ticker", dto.product.pr_disp, timestamp, Mul(price, rate))

Kept(converted) == SelectSeq(converted, LAMBDA m : m # None)

\* lines 98-107
TickerMetrics(timestamp, prices, values, threshold_minutes) ==
    Kept([n \in 1..Len(values) |->
            _convert_ticker(timestamp, prices, values[n], threshold_minutes)])

\* lines 211-223: one balance record
BalancePlaceholder(timestamp, prices, dto) ==
    LET amount == dto.balance.bc_amnt
        rate   == _calculate_evaluation(dto.evaluation, prices)
    IN  IF dto.account = None \/ amount = None THEN None
        ELSE Metric("balance", dto.account.ac_disp, timestamp,
                    IF rate = None THEN _ZERO ELSE Mul(amount, rate))

BalanceMetric(timestamp, prices, dto) ==
    LET amount == dto.balance.bc_amnt
        rate   == _calculate_evaluation(dto.evaluation, prices)
    IN  IF dto.account = None \/ amount = None \/ rate = None THEN None
        ELSE Metric("balance", dto.account.ac_disp, timestamp, Mul(amount, rate))

\* lines 209-223.  The rate of every record is computed before its filter
\* (line 213), so one chain that raises ends the loop for the whole batch.
BalanceRaises(prices, values) ==
    \E n \in 1..Len(values) : _calculate_evaluation(values[n].evaluation, prices) = RAISED

BalanceMetrics(timestamp, prices, values) ==
    Kept([n \in 1..Len(values) |-> BalanceMetric(timestamp, prices, values[n])])

\* lines 241-253
PositionUpl(timestamp, prices, dto) ==
    LET amount == dto.position.ps_fund
        rate   == _calculate_evaluation(dto.fund, prices)
    IN  IF dto.product = None \/ amount = None \/ rate = None THEN None
        ELSE Metric("position@upl", dto.product.pr_disp, timestamp, Mul(amount, rate))

\* lines 257-269
PositionQty(timestamp, prices, dto) ==
    LET amount == dto.position.ps_inst
        rate   == _calculate_evaluation(dto.inst, prices)
    IN  IF dto.product = None \/ amount = None \/ rate = None THEN None
        ELSE Metric("position@qty", dto.product.pr_disp, timestamp, Mul(amount, rate))

PositionRaises(prices, values) ==
    \E n \in 1..Len(values) :
        \/ _calculate_evaluation(values[n].fund, prices) = RAISED
        \/ _calculate_evaluation(values[n].inst, prices) = RAISED

\* lines 239-269: the upl loop over the whole batch, then the qty loop
PositionMetrics(timestamp, prices, values) ==
    Kept([n \in 1..Len(values) |-> PositionUpl(timestamp, prices, values[n])])
    \o Kept([n \in 1..Len(values) |-> PositionQty(timestamp, prices, values[n])])

\* lines 299-315
TradeMetric(timestamp, prices, key, dto) ==
    LET inst_qty  == dto.tx_net_inst
        fund_qty  == dto.tx_net_fund
        inst_rate == _calculate_evaluation(dto.ev_inst, prices)
        fund_rate == _calculate_evaluation(dto.ev_fund, prices)
    IN  IF \/ dto.product = None
           \/ inst_qty = None \/ fund_qty = None
           \/ inst_rate = None \/ fund_rate = None
        THEN None
        ELSE Metric("trade@" \o key, dto.product.pr_disp, timestamp,
                    Add(Mul(inst_qty, inst_rate), Mul(fund_qty, fund_rate)))

\* lines 341-353
VolumeMetric(timestamp, prices, key, dto) ==
    LET amount == dto.tx_grs_fund
        rate   == _calculate_evaluation(dto.ev_fund, prices)
    IN  IF dto.product = None \/ amount = None \/ rate = None THEN None
        ELSE Metric("volume@" \o key, dto.product.pr_disp, timestamp, Mul(amount, rate))

\* lines 287-291 and 329-333: the windows, in the order the dicts are iterated
TradeWindows == <<"DAY", "MTD", "YTD">>

VolumeWindows == <<"12H", "01D", "30D">>

TradeRaises(prices, transactions) ==
    \E w \in 1..Len(TradeWindows) : \E n \in 1..Len(transactions[TradeWindows[w]]) :
        LET dto == transactions[TradeWindows[w]][n]
        IN  \/ _calculate_evaluation(dto.ev_inst, prices) = RAISED
            \/ _calculate_evaluation(dto.ev_fund, prices) = RAISED

VolumeRaises(prices, transactions) ==
    \E w \in 1..Len(VolumeWindows) : \E n \in 1..Len(transactions[VolumeWindows[w]]) :
        _calculate_evaluation(transactions[VolumeWindows[w]][n].ev_fund, prices) = RAISED

TradeOfWindow(timestamp, prices, key, values) ==
    Kept([n \in 1..Len(values) |-> TradeMetric(timestamp, prices, key, values[n])])

VolumeOfWindow(timestamp, prices, key, values) ==
    Kept([n \in 1..Len(values) |-> VolumeMetric(timestamp, prices, key, values[n])])

\* lines 293-315: `transactions` is what fetch_transactions returns per window
TradeMetrics(timestamp, prices, transactions) ==
    TradeOfWindow(timestamp, prices, "DAY", transactions["DAY"])
    \o TradeOfWindow(timestamp, prices, "MTD", transactions["MTD"])
    \o TradeOfWindow(timestamp, prices, "YTD", transactions["YTD"])

\* lines 335-353
VolumeMetrics(timestamp, prices, transactions) ==
    VolumeOfWindow(timestamp, prices, "12H", transactions["12H"])
    \o VolumeOfWindow(timestamp, prices, "01D", transactions["01D"])
    \o VolumeOfWindow(timestamp, prices, "30D", transactions["30D"])

(***************************************************************************)
(* process_metric: what the storage collaborator holds.                    *)
(***************************************************************************)
MaxCount == 2

MaxCalls == 2

MaxExtra == 1

DefaultThreshold == 3

Chain(ticker_site, ticker_code, convert_site, convert_code) ==
    [ev_ticker_site |-> ticker_site, ev_ticker_code |-> ticker_code,
     ev_convert_site |-> convert_site, ev_convert_code |-> convert_code]

Product(disp, expr) == [pr_disp |-> disp, pr_expr |-> expr]

TickerDto(site, code, ask, bid, ltp, time, product, fund) ==
    [ticker |-> [tk_site |-> site, tk_code |-> code, tk_ask |-> ask, tk_bid |-> bid,
                 tk_ltp |-> ltp, tk_time |-> time],
     product |-> product, fund |-> fund]

BalanceDto(account, amnt, evaluation) ==
    [account |-> account, balance |-> [bc_amnt |-> amnt], evaluation |-> evaluation]

PositionDto(product, ps_fund, ps_inst, fund, inst) ==
    [product |-> product, position |-> [ps_fund |-> ps_fund, ps_inst |-> ps_inst],
     fund |-> fund, inst |-> inst]

TransactionDto(product, net_inst, net_fund, grs_fund, ev_inst, ev_fund) ==
    [product |-> product, tx_net_inst |-> net_inst, tx_net_fund |-> net_fund,
     tx_grs_fund |-> grs_fund, ev_inst |-> ev_inst, ev_fund |-> ev_fund]

Account(disp) == [ac_disp |-> disp]

\* Chains against the feed below: no leg, a ticker leg on (siteA, BTC), both legs,
\* a convert leg on a code the table lacks, a ticker leg on an all-zero quote,
\* a ticker leg on a site the table lacks.
ViaBTC == Chain("siteA", "BTC", NONE, NONE)

ViaBoth == Chain("siteA", "BTC", "siteB", "USD")

ViaMissing == Chain(NONE, NONE, "siteB", "BTC")

ViaZero == Chain("siteA", "USD", NONE, NONE)

ViaNoSite == Chain("siteC", "BTC", NONE, NONE)

\* The feed of the timestamp `age` minutes before the newest one: (siteA, BTC)
\* quotes ask 100, bid 102 at the newest timestamp and multiples of them before
\* it; (siteB, USD) has only a last-traded price; (siteA, USD) is all zero.
FeedTickers(timestamp, age) ==
    << TickerDto("siteA", "BTC", Dec(100 * (age + 1)), Dec(102 * (age + 1)), Dec(0), timestamp,
                 Product("BTC/USD", None), Chain(NONE, NONE, "siteB", "USD")),
       TickerDto("siteB", "USD", Dec(0), Dec(0), Dec(2), timestamp - Minute,
                 Product("USD/JPY", <<timestamp>>), NoEvaluation),
       TickerDto("siteA", "USD", Dec(0), Dec(0), Dec(0), timestamp,
                 Product("ZERO", None), NoEvaluation) >>

FeedBalances ==
    << BalanceDto(Account("cold"), Dec(7), NoEvaluation),
       BalanceDto(Account("hot"), Dec(5), ViaBTC),
       BalanceDto(Account("lost"), Dec(1), ViaMissing),
       BalanceDto(Account("gone"), Dec(9), ViaNoSite) >>

FeedPositions ==
    << PositionDto(Product("BTC/USD", None), Dec(3), Dec(4), NoEvaluation, ViaMissing),
       PositionDto(Product("FX", None), None, Dec(2), ViaBTC, Chain("siteB", "USD", NONE, NONE)) >>

FeedTx1 == TransactionDto(Product("BTC/USD", None), Dec(1), Dec(-100), Dec(100), ViaBTC, NoEvaluation)

FeedTx2 == TransactionDto(Product("BTC/USD", None), Dec(2), Dec(-150), Dec(150), ViaBTC, NoEvaluation)

Windows == {"DAY", "MTD", "YTD", "12H", "01D", "30D"}

FeedTransactions(extra) ==
    [w \in Windows |->
        (IF w \in {"DAY", "12H", "01D"} THEN <<FeedTx1>> ELSE <<FeedTx1, FeedTx2>>) \o extra]

\* Further records, one kind at a time.
TickerExtras(timestamp, threshold_minutes) ==
    LET cutoff == timestamp - threshold_minutes * Minute IN
    { TickerDto("siteB", "ETH", Dec(2), Dec(4), Dec(0), time, product, NoEvaluation) :
        time \in {cutoff - Minute, cutoff - 1, cutoff, timestamp},
        product \in {None, Product("FUT", None), Product("FUT", <<timestamp - 1>>),
                     Product("FUT", <<timestamp>>)} }
    \cup
    { TickerDto("siteB", "ETH", Dec(2), Dec(4), Dec(0), cutoff, Product("FUT", None), fund) :
        fund \in {None, ViaBTC, ViaMissing, ViaZero} }
    \cup
    { TickerDto("siteB", "ETH", Dec(-4), Dec(4), Dec(0), cutoff, Product("FUT", None), NoEvaluation),
      TickerDto("siteA", "BTC", Dec(0), Dec(0), Dec(0), cutoff, Product("FUT", None), NoEvaluation) }

BalanceExtras ==
    { BalanceDto(account, amnt, evaluation) :
        account \in {None, Account("extra")}, amnt \in {None, Dec(5)},
        evaluation \in {None, NoEvaluation, ViaBTC, ViaBoth, ViaMissing, ViaZero} }

PositionExtras ==
    { PositionDto(product, ps_fund, ps_inst, fund, inst) :
        product \in {None, Product("extra", None)},
        ps_fund \in {None, Dec(3)}, ps_inst \in {None, Dec(4)},
        fund \in {None, NoEvaluation, ViaBoth, ViaMissing},
        inst \in {None, NoEvaluation, ViaBoth, ViaMissing} }

TransactionExtras ==
    { TransactionDto(product, q[1], q[2], q[3], ev_inst, ev_fund) :
        product \in {None, Product("extra", None)},
        q \in {<<Dec(1), Dec(-100), Dec(100)>>, <<None, Dec(-100), Dec(100)>>,
               <<Dec(1), None, Dec(100)>>, <<Dec(1), Dec(-100), None>>},
        ev_inst \in {None, NoEvaluation, ViaBoth, ViaMissing},
        ev_fund \in {None, NoEvaluation, ViaBoth, ViaZero} }

Floor(base_time) == base_time - (base_time % Minute)

\* line 69
Timestamps(base_time, count) == [i \in 1..count |-> Floor(base_time) - (i - 1) * Minute]

BaseTimes == {6017}

Thresholds == {DefaultThreshold, 1}

Focuses == {"ticker", "balance", "position", "transaction"}

ExtrasOf(focus, timestamp, threshold_minutes) ==
    CASE focus = "ticker"      -> TickerExtras(timestamp, threshold_minutes)
      [] focus = "balance"     -> BalanceExtras
      [] focus = "position"    -> PositionExtras
      [] focus = "transaction" -> TransactionExtras

\* The rows the collaborator holds for the timestamps of the batch; it holds
\* nothing for any other time.
Held(timestamp) ==
    \E age \in 0..(m_count - 1) : timestamp = Floor(m_base) - age * Minute

Age(timestamp) == (Floor(m_base) - timestamp) \div Minute

Plus(kind) == IF m_focus = kind THEN m_extra ELSE <<>>

fetch_tickers(timestamp) ==
    IF Held(timestamp) THEN FeedTickers(timestamp, Age(timestamp)) \o Plus("ticker") ELSE <<>>

fetch_balances(timestamp) ==
    IF Held(timestamp) THEN FeedBalances \o Plus("balance") ELSE <<>>

fetch_positions(timestamp) ==
    IF Held(timestamp) THEN FeedPositions \o Plus("position") ELSE <<>>

\* fetch_transactions(val, timestamp) for each window's val: the answers by window
fetch_transactions(timestamp) ==
    IF Held(timestamp) THEN FeedTransactions(Plus("transaction")) ELSE [w \in Windows |-> <<>>]

AllKinds == {"ticker", "balance", "position", "trade", "volume"}

\* lines 77-80: the builders of one timestamp, in the order their threads are made
BuilderKinds == <<"balance", "position", "trade", "volume">>

Faults(count) ==
    { [i |-> i, kind |-> kind, at |-> at] :
        i \in 1..count, kind \in AllKinds, at \in {"fetch", "save"} }

FaultAt(i, kind, at) == m_fault # None /\ m_fault = [i |-> i, kind |-> kind, at |-> at]

NotCalled == [called |-> FALSE, metrics |-> <<>>, returned |-> FALSE]

SaveKeys == (1..MaxCalls) \X (1..MaxCount) \X AllKinds

InitMetric ==
    /\ RateIdle /\ PurgeIdle /\ WrapIdle /\ HistIdle
    /\ m_base \in BaseTimes
    /\ m_count \in 1..MaxCount
    /\ m_threshold \in Thresholds
    /\ m_fault \in {None} \cup Faults(m_count)
    /\ m_focus \in Focuses
    /\ m_extra \in SeqsUpTo(ExtrasOf(m_focus, Floor(m_base), m_threshold), MaxExtra)
    /\ m_extra # <<>> => (m_count = 1 /\ m_fault = None)
    /\ m_extra = <<>> => m_focus = "ticker"
    /\ m_threshold # DefaultThreshold => (m_focus = "ticker" /\ m_count = 1 /\ m_fault = None)
    /\ m_pc = "idle" /\ m_call = 0 /\ m_timestamps = <<>> /\ m_i = 0
    /\ m_prices = <<>> /\ m_thread = <<>> /\ m_started = 0 /\ m_joined = 0
    /\ m_save = [key \in SaveKeys |-> NotCalled]

(***************************************************************************)
(* process_metric: the run.                                                *)
(***************************************************************************)
\* The clock at the n-th call; process_metric reads it only without default_time.
Clock(n) == m_base + (n - 1) * Minute

\* line 65
BaseTimeFromClock(default_time, now) == now

BaseTime(default_time, now) == IF default_time # None THEN default_time[1] ELSE now

Thread(i, kind) == [target |-> <<i, kind>>, state |-> "new"]

\* lines 77-80: four threads per timestamp, appended to the one list of line 73
AppendThreadsToFreshList(threads, i) ==
    [k \in 1..Len(BuilderKinds) |-> Thread(i, BuilderKinds[k])]

AppendThreads(threads, i) ==
    threads \o [k \in 1..Len(BuilderKinds) |-> Thread(i, BuilderKinds[k])]

(***************************************************************************)
(* The reads of the rate table.  prices.get(site) (lines 147, 179, 190)    *)
(* leaves a defaultdict as it is also for a site it does not hold; what    *)
(* each builder looks up follows its loop and the evaluator's early        *)
(* returns.                                                                *)
(***************************************************************************)
TableAfterIndexing(table, site) ==
    IF site \in DOMAIN table
    THEN table
    ELSE [s \in (DOMAIN table) \cup {site} |-> IF s = site THEN <<>> ELSE table[s]]

TableAfterGet(table, site) == table

RECURSIVE TableAfterGets(_, _)
TableAfterGets(table, sites) ==
    IF sites = {}
    THEN table
    ELSE LET site == CHOOSE s \in sites : TRUE
         IN  TableAfterGets(TableAfterGet(table, site), sites \ {site})

After(prices, sites) ==
    IF prices.isNone THEN prices ELSE PricesOf(TableAfterGets(prices.table, sites))

\* lines 170-199: the sites _calculate_evaluation looks up
Sought(evaluation, prices) ==
    IF evaluation = None
    THEN {}
    ELSE LET first  == IF evaluation.ev_ticker_site # NONE /\ evaluation.ev_ticker_code # NONE
                       THEN {evaluation.ev_ticker_site} ELSE {}
             second == IF evaluation.ev_convert_site # NONE /\ evaluation.ev_convert_code # NONE
                       THEN {evaluation.ev_convert_site} ELSE {}
         IN  IF Leg(_ONE, prices, evaluation.ev_ticker_site, evaluation.ev_ticker_code) = None
             THEN first
             ELSE first \cup second

\* lines 144-157
TickerSought(timestamp, prices, values, threshold_minutes) ==
    UNION { LET dto   == values[n]
                price == Lookup(prices, dto.ticker.tk_site, dto.ticker.tk_code)
            IN  IF Stale(dto.ticker.tk_time, timestamp - threshold_minutes * Minute)
                THEN {}
                ELSE IF price = None \/ price = _ZERO \/ dto.product = None
                THEN {dto.ticker.tk_site}
                ELSE IF Expired(dto.product.pr_expr, timestamp)
                THEN {dto.ticker.tk_site}
                ELSE {dto.ticker.tk_site} \cup Sought(dto.fund, prices)
          : n \in 1..Len(values) }

\* line 213
BalanceSought(prices, values) ==
    UNION { Sought(values[n].evaluation, prices) : n \in 1..Len(values) }

\* lines 243 and 259
PositionSought(prices, values) ==
    UNION { Sought(values[n].fund, prices) \cup Sought(values[n].inst, prices)
          : n \in 1..Len(values) }

\* lines 302-303
TradeSought(prices, transactions) ==
    UNION { UNION { Sought(transactions[TradeWindows[w]][n].ev_inst, prices)
                    \cup Sought(transactions[TradeWindows[w]][n].ev_fund, prices)
                  : n \in 1..Len(transactions[TradeWindows[w]]) }
          : w \in 1..Len(TradeWindows) }

\* line 343
VolumeSought(prices, transactions) ==
    UNION { UNION { Sought(transactions[VolumeWindows[w]][n].ev_fund, prices)
                  : n \in 1..Len(transactions[VolumeWindows[w]]) }
          : w \in 1..Len(VolumeWindows) }

BuilderSought(kind, timestamp, prices) ==
    CASE kind = "balance"  -> BalanceSought(prices, fetch_balances(timestamp))
      [] kind = "position" -> PositionSought(prices, fetch_positions(timestamp))
      [] kind = "trade"    -> TradeSought(prices, fetch_transactions(timestamp))
      [] kind = "volume"   -> VolumeSought(prices, fetch_transactions(timestamp))

Saved(metrics, returned) == [called |-> TRUE, metrics |-> metrics, returned |-> returned]

\* lines 63-73: the call begins, with default_time given
ProcessMetric ==
    /\ m_count > 0
    /\ m_pc \in {"idle", "returned"}
    /\ m_call < MaxCalls
    /\ m_call' = m_call + 1
    /\ m_timestamps' = Timestamps(BaseTime(<<m_base>>, Clock(m_call + 1)), m_count)
    /\ m_i' = 0
    /\ m_prices' = <<>>
    /\ m_thread' = <<>>
    /\ m_started' = 0
    /\ m_joined' = 0
    /\ m_pc' = "tickers"
    /\ UNCHANGED <<m_save, metricConf, rateVars, purgeVars, wrapVars, histVars>>

\* lines 75-80 with process_ticker (lines 88-115) for the next timestamp
ProcessTicker ==
    /\ m_pc = "tickers"
    /\ LET i         == m_i + 1
           timestamp == m_timestamps[i]
           values    == fetch_tickers(timestamp)
           prices    == PricesOf(_calculate_prices(values))
           metrics   == TickerMetrics(timestamp, prices, values, m_threshold)
       IN  /\ m_prices' = Append(m_prices,
                                 IF FaultAt(i, "ticker", "fetch")
                                 THEN NoPrices
                                 ELSE After(prices, TickerSought(timestamp, prices, values,
                                                                 m_threshold)))
           /\ m_save' = IF FaultAt(i, "ticker", "fetch")
                        THEN m_save
                        ELSE [m_save EXCEPT ![<<m_call, i, "ticker">>] =
                                 Saved(metrics, ~FaultAt(i, "ticker", "save"))]
           /\ m_thread' = AppendThreads(m_thread, i)
           /\ m_i' = i
           /\ m_pc' = IF i = m_count THEN "starting" ELSE "tickers"
    /\ UNCHANGED <<m_call, m_timestamps, m_started, m_joined, metricConf, rateVars, purgeVars, wrapVars, histVars>>

\* lines 82-83
StartThreadBesideTickers ==
    /\ m_pc \in {"tickers", "starting"}
    /\ m_started < Len(m_thread)
    /\ m_thread' = [m_thread EXCEPT ![m_started + 1].state = "running"]
    /\ m_started' = m_started + 1
    /\ m_pc' = IF m_pc = "tickers" THEN "tickers"
               ELSE IF m_started + 1 = Len(m_thread) THEN "joining" ELSE "starting"
    /\ UNCHANGED <<m_call, m_timestamps, m_i, m_prices, m_joined, m_save, metricConf, rateVars, purgeVars, wrapVars, histVars>>

StartThread ==
    /\ m_pc = "starting"
    /\ m_thread' = [m_thread EXCEPT ![m_started + 1].state = "running"]
    /\ m_started' = m_started + 1
    /\ m_pc' = IF m_started + 1 = Len(m_thread) THEN "joining" ELSE "starting"
    /\ UNCHANGED <<m_call, m_timestamps, m_i, m_prices, m_joined, m_save, metricConf, rateVars, purgeVars, wrapVars, histVars>>

\* A builder thread from its try to its except: the fetch, the loop, the one
\* save_metrics call.  `raises` and `metrics` are read only once the fetch returned.
Builder(k, kind, raises, metrics) ==
    /\ m_thread[k].state = "running"
    /\ m_thread[k].target[2] = kind
    /\ LET i == m_thread[k].target[1]
       IN  /\ m_save' = IF FaultAt(i, kind, "fetch") \/ raises
                        THEN m_save
                        ELSE [m_save EXCEPT ![<<m_call, i, kind>>] =
                                 Saved(metrics, ~FaultAt(i, kind, "save"))]
           /\ m_prices' = IF FaultAt(i, kind, "fetch")
                          THEN m_prices
                          ELSE [m_prices EXCEPT ![i] =
                                   After(@, BuilderSought(kind, m_timestamps[i], @))]
    /\ m_thread' = [m_thread EXCEPT ![k].state = "done"]
    /\ UNCHANGED <<m_pc, m_call, m_timestamps, m_i, m_started, m_joined,
                   metricConf, rateVars, purgeVars, wrapVars, histVars>>

TimestampOf(k) == m_timestamps[m_thread[k].target[1]]

PricesFor(k) == m_prices[m_thread[k].target[1]]

\* lines 201-229
ProcessBalance ==
    \E k \in 1..Len(m_thread) :
        LET values == fetch_balances(TimestampOf(k))
        IN  Builder(k, "balance", BalanceRaises(PricesFor(k), values),
                    BalanceMetrics(TimestampOf(k), PricesFor(k), values))

\* lines 231-275
ProcessPosition ==
    \E k \in 1..Len(m_thread) :
        LET values == fetch_positions(TimestampOf(k))
        IN  Builder(k, "position", PositionRaises(PricesFor(k), values),
                    PositionMetrics(TimestampOf(k), PricesFor(k), values))

\* lines 277-321
ProcessTransactionTrade ==
    \E k \in 1..Len(m_thread) :
        LET transactions == fetch_transactions(TimestampOf(k))
        IN  Builder(k, "trade", TradeRaises(PricesFor(k), transactions),
                    TradeMetrics(TimestampOf(k), PricesFor(k), transactions))

\* lines 323-359
ProcessTransactionVolume ==
    \E k \in 1..Len(m_thread) :
        LET transactions == fetch_transactions(TimestampOf(k))
        IN  Builder(k, "volume", VolumeRaises(PricesFor(k), transactions),
                    VolumeMetrics(TimestampOf(k), PricesFor(k), transactions))

\* lines 85-86: join returns once the thread has finished
JoinThread ==
    /\ m_pc = "joining"
    /\ m_joined < Len(m_thread)
    /\ m_thread[m_joined + 1].state = "done"
    /\ m_joined' = m_joined + 1
    /\ UNCHANGED <<m_pc, m_call, m_timestamps, m_i, m_prices, m_thread, m_started, m_save,
                   metricConf, rateVars, purgeVars, wrapVars, histVars>>

\* the end of line 86's loop: process_metric returns
ProcessMetricReturnUnjoined ==
    /\ m_pc = "joining"
    /\ m_pc' = "returned"
    /\ UNCHANGED <<m_call, m_timestamps, m_i, m_prices, m_thread, m_started, m_joined, m_save,
                   metricConf, rateVars, purgeVars, wrapVars, histVars>>

ProcessMetricReturn ==
    /\ m_pc = "joining"
    /\ m_joined = Len(m_thread)
    /\ m_pc' = "returned"
    /\ UNCHANGED <<m_call, m_timestamps, m_i, m_prices, m_thread, m_started, m_joined, m_save,
                   metricConf, rateVars, purgeVars, wrapVars, histVars>>

NextMetric ==
    \/ ProcessMetric
    \/ ProcessTicker
    \/ StartThread
    \/ ProcessBalance
    \/ ProcessPosition
    \/ ProcessTransactionTrade
    \/ ProcessTransactionVolume
    \/ JoinThread
    \/ ProcessMetricReturn

SpecMetric == InitMetric /\ [][NextMetric]_vars

(***************************************************************************)
(* Claims about process_metric and the builders (SpecMetric).              *)
(***************************************************************************)
\* The save_metrics call of a builder of the call in progress.
SaveOf(i, kind) == m_save[<<m_call, i, kind>>]

Finished(i, kind) ==
    \E k \in 1..Len(m_thread) :
        m_thread[k].target = <<i, kind>> /\ m_thread[k].state = "done"

\* What process_ticker is said to hand the builders of the i-th timestamp.
TableOf(i) ==
    IF FaultAt(i, "ticker", "fetch")
    THEN NoPrices
    ELSE PricesOf(_calculate_prices(fetch_tickers(m_timestamps[i])))

Resolves(evaluation, prices) ==
    LET rate == _calculate_evaluation(evaluation, prices)
    IN  rate # None /\ rate # RAISED /\ rate # _ZERO

Times(amount, evaluation, prices) ==
    LET rate == _calculate_evaluation(evaluation, prices)
    IN  Normal(amount[1] * rate[1], amount[2] * rate[2])

\* The records a metric of each kind may come from.
TickerSources(values, prices) ==
    { n \in 1..Len(values) :
        /\ values[n].product # None
        /\ Present(Stored(prices.table, values[n].ticker.tk_site, values[n].ticker.tk_code))
        /\ Resolves(values[n].fund, prices) }

BalanceSources(values, prices) ==
    { n \in 1..Len(values) :
        /\ values[n].account # None
        /\ values[n].balance.bc_amnt # None
        /\ Resolves(values[n].evaluation, prices) }

UplSources(values, prices) ==
    { n \in 1..Len(values) :
        /\ values[n].product # None
        /\ values[n].position.ps_fund # None
        /\ Resolves(values[n].fund, prices) }

QtySources(values, prices) ==
    { n \in 1..Len(values) :
        /\ values[n].product # None
        /\ values[n].position.ps_inst # None
        /\ Resolves(values[n].inst, prices) }

Rows(tx, windows) ==
    { wn \in windows \X (1..(MaxExtra + 2)) : wn[2] <= Len(tx[wn[1]]) }

TradeSources(tx, prices) ==
    { wn \in Rows(tx, {"DAY", "MTD", "YTD"}) :
        /\ tx[wn[1]][wn[2]].product # None
        /\ tx[wn[1]][wn[2]].tx_net_inst # None /\ tx[wn[1]][wn[2]].tx_net_fund # None
        /\ Resolves(tx[wn[1]][wn[2]].ev_inst, prices)
        /\ Resolves(tx[wn[1]][wn[2]].ev_fund, prices) }

VolumeSources(tx, prices) ==
    { wn \in Rows(tx, {"12H", "01D", "30D"}) :
        /\ tx[wn[1]][wn[2]].product # None
        /\ tx[wn[1]][wn[2]].tx_grs_fund # None
        /\ Resolves(tx[wn[1]][wn[2]].ev_fund, prices) }

\* Every metric of `metrics` is the metric Of(src) of a source, and there are no
\* more metrics than sources.
ComeFrom(metrics, sources, Of(_)) ==
    /\ Len(metrics) <= Cardinality(sources)
    /\ \A n \in 1..Len(metrics) :
          /\ metrics[n].mc_amnt # None
          /\ \E src \in sources : metrics[n] = Of(src)

TypeIs(metrics, types) == SelectSeq(metrics, LAMBDA m : m.mc_type \in types)

TickerComeFrom(metrics, timestamp, prices, values) ==
    metrics # <<>> =>
    ComeFrom(metrics, TickerSources(values, prices),
             LAMBDA n : Metric("ticker", values[n].product.pr_disp, timestamp,
                               Times(Stored(prices.table, values[n].ticker.tk_site,
                                            values[n].ticker.tk_code),
                                     values[n].fund, prices)))

BalanceComeFrom(metrics, timestamp, prices, values) ==
    metrics # <<>> =>
    ComeFrom(metrics, BalanceSources(values, prices),
             LAMBDA n : Metric("balance", values[n].account.ac_disp, timestamp,
                               Times(values[n].balance.bc_amnt, values[n].evaluation, prices)))

PositionComeFrom(metrics, timestamp, prices, values) ==
    metrics # <<>> =>
    /\ ComeFrom(TypeIs(metrics, {"position@upl"}), UplSources(values, prices),
                LAMBDA n : Metric("position@upl", values[n].product.pr_disp, timestamp,
                                  Times(values[n].position.ps_fund, values[n].fund, prices)))
    /\ ComeFrom(TypeIs(metrics, {"position@qty"}), QtySources(values, prices),
                LAMBDA n : Metric("position@qty", values[n].product.pr_disp, timestamp,
                                  Times(values[n].position.ps_inst, values[n].inst, prices)))
    /\ Len(metrics) = Len(TypeIs(metrics, {"position@upl", "position@qty"}))

TradeComeFrom(metrics, timestamp, prices, tx) ==
    metrics # <<>> =>
    ComeFrom(metrics, TradeSources(tx, prices),
             LAMBDA wn : Metric("trade@" \o wn[1], tx[wn[1]][wn[2]].product.pr_disp, timestamp,
                                Add(Times(tx[wn[1]][wn[2]].tx_net_inst,
                                          tx[wn[1]][wn[2]].ev_inst, prices),
                                    Times(tx[wn[1]][wn[2]].tx_net_fund,
                                          tx[wn[1]][wn[2]].ev_fund, prices))))

VolumeComeFrom(metrics, timestamp, prices, tx) ==
    metrics # <<>> =>
    ComeFrom(metrics, VolumeSources(tx, prices),
             LAMBDA wn : Metric("volume@" \o wn[1], tx[wn[1]][wn[2]].product.pr_disp, timestamp,
                                Times(tx[wn[1]][wn[2]].tx_grs_fund,
                                      tx[wn[1]][wn[2]].ev_fund, prices)))

\* C3: every Metric handed to save_metrics, of any kind, has a non-null amount and
\* comes from a record whose chains resolved to a non-null, non-zero multiplier
\* and whose quantities are non-null; a record that fails yields no Metric.
C3_MetricsResolved ==
    \A i \in 1..Len(m_prices) :
        /\ TickerComeFrom(SaveOf(i, "ticker").metrics, m_timestamps[i], m_prices[i],
                          fetch_tickers(m_timestamps[i]))
        /\ BalanceComeFrom(SaveOf(i, "balance").metrics, m_timestamps[i], m_prices[i],
                           fetch_balances(m_timestamps[i]))
        /\ PositionComeFrom(SaveOf(i, "position").metrics, m_timestamps[i], m_prices[i],
                            fetch_positions(m_timestamps[i]))
        /\ TradeComeFrom(SaveOf(i, "trade").metrics, m_timestamps[i], m_prices[i],
                         fetch_transactions(m_timestamps[i]))
        /\ VolumeComeFrom(SaveOf(i, "volume").metrics, m_timestamps[i], m_prices[i],
                          fetch_transactions(m_timestamps[i]))

\* A run in which every kind has handed metrics to save_metrics while the batch
\* held a record that fails (the balance "lost", on a code the table lacks).
C3_Witness ==
    /\ m_pc = "returned"
    /\ \A kind \in AllKinds : SaveOf(1, kind).called /\ SaveOf(1, kind).metrics # <<>>
    /\ Len(SaveOf(1, "balance").metrics) < Len(fetch_balances(m_timestamps[1]))

\* The indices 1..len that satisfy Keep, in order.
Picked(len, Keep(_)) == SelectSeq([n \in 1..len |-> n], Keep)

\* The ticker metrics said to be handed over: one per record that is not older
\* than the cutoff and whose price, product, expiry and chain pass, in order.
StatedTickerMetrics(timestamp, prices, values, threshold_minutes) ==
    LET fresh(n) == ~(values[n].ticker.tk_time < timestamp - threshold_minutes * Minute)
        passes(n) ==
            /\ n \in TickerSources(values, prices)
            /\ \/ values[n].product.pr_expr = None
               \/ values[n].product.pr_expr[1] >= timestamp
        picked == Picked(Len(values), LAMBDA n : fresh(n) /\ passes(n))
    IN  [j \in 1..Len(picked) |->
            Metric("ticker", values[picked[j]].product.pr_disp, timestamp,
                   Times(Stored(prices.table, values[picked[j]].ticker.tk_site,
                                values[picked[j]].ticker.tk_code),
                         values[picked[j]].fund, prices))]

\* C7: a ticker record is rejected for staleness iff its quote time is strictly
\* earlier than T - th minutes; a quote exactly at the cutoff is included when its
\* price, product, expiry and chain pass, and any older one is excluded.
C7_Staleness ==
    \A i \in 1..Len(m_prices) :
        SaveOf(i, "ticker").called =>
            SaveOf(i, "ticker").metrics =
                StatedTickerMetrics(m_timestamps[i], m_prices[i],
                                    fetch_tickers(m_timestamps[i]), m_threshold)

\* With the default threshold, a quote exactly three minutes before the snapshot
\* is in the batch and its metric has been handed over.
C7_Witness ==
    /\ m_pc = "returned"
    /\ m_threshold = DefaultThreshold
    /\ m_focus = "ticker" /\ Len(m_extra) = 1
    /\ m_extra[1].ticker.tk_time = m_timestamps[1] - DefaultThreshold * Minute
    /\ \E n \in 1..Len(SaveOf(1, "ticker").metrics) :
          SaveOf(1, "ticker").metrics[n] = Metric("ticker", "FUT", m_timestamps[1], Dec(3))

\* What each builder persists from the feed alone, `age` minutes before the newest
\* timestamp: the balances 7 and 5 x 101 x (age + 1), and so on.
FeedPersisted(kind, timestamp, age) ==
    CASE kind = "balance" ->
            << Metric("balance", "cold", timestamp, Dec(7)),
               Metric("balance", "hot", timestamp, Dec(505 * (age + 1))) >>
      [] kind = "position" ->
            << Metric("position@upl", "BTC/USD", timestamp, Dec(3)),
               Metric("position@qty", "FX", timestamp, Dec(4)) >>
      [] kind = "trade" ->
            << Metric("trade@DAY", "BTC/USD", timestamp, Dec(101 * (age + 1) - 100)),
               Metric("trade@MTD", "BTC/USD", timestamp, Dec(101 * (age + 1) - 100)),
               Metric("trade@MTD", "BTC/USD", timestamp, Dec(202 * (age + 1) - 150)),
               Metric("trade@YTD", "BTC/USD", timestamp, Dec(101 * (age + 1) - 100)),
               Metric("trade@YTD", "BTC/USD", timestamp, Dec(202 * (age + 1) - 150)) >>
      [] kind = "volume" ->
            << Metric("volume@12H", "BTC/USD", timestamp, Dec(100)),
               Metric("volume@01D", "BTC/USD", timestamp, Dec(100)),
               Metric("volume@30D", "BTC/USD", timestamp, Dec(100)),
               Metric("volume@30D", "BTC/USD", timestamp, Dec(150)) >>

Builders == {"balance", "position", "trade", "volume"}

BuilderFault == m_fault # None /\ m_fault.kind \in Builders

\* C4: when the fetch or the save of one builder raises, process_metric still
\* returns with every builder thread of the batch finished, and every other
\* builder, of the same and of the other timestamps, has persisted exactly what
\* it persists when nothing fails.
C4_FaultIsolation ==
    (m_pc = "returned" /\ m_extra = <<>> /\ (m_fault = None \/ BuilderFault)) =>
        \A i \in 1..m_count : \A kind \in Builders :
            /\ Finished(i, kind)
            /\ (m_fault = None \/ <<i, kind>> # <<m_fault.i, m_fault.kind>>) =>
                  SaveOf(i, kind) =
                      Saved(FeedPersisted(kind, Floor(m_base) - (i - 1) * Minute, i - 1), TRUE)

\* fetch_positions raised for the newest of two timestamps and the call returned.
C4_Witness ==
    /\ m_pc = "returned"
    /\ m_count = 2
    /\ FaultAt(1, "position", "fetch")
    /\ ~SaveOf(1, "position").called
    /\ SaveOf(1, "balance").returned /\ SaveOf(1, "trade").returned
    /\ SaveOf(2, "position").returned

\* C9: two calls of process_metric for the same base time, with the same
\* properties and the same fetch results, hand the same Metric values to
\* save_metrics, builder by builder, whatever the interleaving of the threads.
C9_Idempotent ==
    (m_pc = "returned" /\ m_call >= 2) =>
        \A i \in 1..MaxCount : \A kind \in AllKinds :
            /\ m_save[<<m_call, i, kind>>].called = m_save[<<1, i, kind>>].called
            /\ m_save[<<m_call, i, kind>>].metrics = m_save[<<1, i, kind>>].metrics

\* The second call of a batch of two timestamps has returned, with metrics handed
\* over for both.
C9_Witness ==
    /\ m_pc = "returned" /\ m_call = 2 /\ m_count = 2
    /\ \A i \in 1..2 : m_save[<<2, i, "trade">>].metrics # <<>>

\* What process_position is said to hand over: position@upl for the records with
\* a fund quantity whose fund chain resolves, position@qty for those with an
\* instrument quantity whose inst chain resolves.
Rate(evaluation, prices) ==
    LET rate == _calculate_evaluation(evaluation, prices)
    IN  rate # None /\ rate # RAISED

StatedPositionMetrics(timestamp, prices, values) ==
    LET upl == Picked(Len(values), LAMBDA n : /\ values[n].product # None
                                              /\ values[n].position.ps_fund # None
                                              /\ Rate(values[n].fund, prices))
        qty == Picked(Len(values), LAMBDA n : /\ values[n].product # None
                                              /\ values[n].position.ps_inst # None
                                              /\ Rate(values[n].inst, prices))
    IN  [j \in 1..Len(upl) |->
            Metric("position@upl", values[upl[j]].product.pr_disp, timestamp,
                   Times(values[upl[j]].position.ps_fund, values[upl[j]].fund, prices))]
        \o
        [j \in 1..Len(qty) |->
            Metric("position@qty", values[qty[j]].product.pr_disp, timestamp,
                   Times(values[qty[j]].position.ps_inst, values[qty[j]].inst, prices))]

PositionAsStated(i) ==
    (Finished(i, "position") /\ ~FaultAt(i, "position", "fetch")) =>
        /\ SaveOf(i, "position").called
        /\ SaveOf(i, "position").metrics =
              StatedPositionMetrics(m_timestamps[i], m_prices[i],
                                    fetch_positions(m_timestamps[i]))

\* C6: for every position record with a product, process_position emits
\* position@upl iff the fund quantity is non-null and the fund chain resolves, and
\* position@qty iff the instrument quantity is non-null and the inst chain
\* resolves, each independently of the other.
C6_PositionIndependent == \A i \in 1..Len(m_prices) : PositionAsStated(i)

\* The same, for the timestamps whose ticker fetch returned.
C6_WithTable ==
    \A i \in 1..Len(m_prices) : ~m_prices[i].isNone => PositionAsStated(i)

StatedBalanceMetrics(timestamp, prices, values) ==
    LET picked == Picked(Len(values), LAMBDA n : /\ values[n].account # None
                                                 /\ values[n].balance.bc_amnt # None
                                                 /\ Rate(values[n].evaluation, prices))
    IN  [j \in 1..Len(picked) |->
            Metric("balance", values[picked[j]].account.ac_disp, timestamp,
                   Times(values[picked[j]].balance.bc_amnt,
                         values[picked[j]].evaluation, prices))]

BalanceAsStated(i) ==
    (Finished(i, "balance") /\ ~FaultAt(i, "balance", "fetch")) =>
        /\ SaveOf(i, "balance").called
        /\ SaveOf(i, "balance").metrics =
              StatedBalanceMetrics(m_timestamps[i], TableOf(i),
                                   fetch_balances(m_timestamps[i]))

\* C8: for every timestamp the balance builder works against what that
\* timestamp's ticker fetch gave: a record with an account and an amount whose
\* chain resolves to r yields exactly one balance metric, stamped with the
\* snapshot timestamp, of amount balance x r, and any other record yields none.
C8_BalanceAgainstOwnTable == \A i \in 1..Len(m_prices) : BalanceAsStated(i)

\* The same, for the timestamps whose ticker fetch returned.
C8_WithTable ==
    \A i \in 1..Len(m_prices) : ~FaultAt(i, "ticker", "fetch") => BalanceAsStated(i)

\* ask 100, bid 102 on (siteA, BTC) and a balance of 5 give 505, and the older
\* timestamp of the batch prices the same balance against its own table.
C8_Example ==
    /\ m_pc = "returned" /\ m_count = 2 /\ m_fault = None
    /\ SaveOf(1, "balance").metrics[2] = Metric("balance", "hot", m_timestamps[1], Dec(505))
    /\ SaveOf(2, "balance").metrics[2] = Metric("balance", "hot", m_timestamps[2], Dec(1010))

(***************************************************************************)
(* purge_metric (lines 361-393): one delete per retention tier, and the    *)
(* next sweep after the loop's sleep.  A metric in storage is its time, in *)
(* seconds; of a metric the sweep reads nothing else.                      *)
(***************************************************************************)
Hour == 3600

\* line 38: the interval of the purge loop
PurgeInterval == 3600

\* lines 361-378: (hours, preserved minutes) per tier
intervals ==
    << <<24 * 365 * 8, {}>>,
       <<48, {0}>>,
       <<36, {i * 30 : i \in 0..1}>>,
       <<24, {i * 15 : i \in 0..3}>>,
       <<12, {i * 5 : i \in 0..11}>> >>

Max(a, b) == IF a > b THEN a ELSE b

\* line 389
CutoffInMinutes(now, hours) == now - Max(hours, 1) * Minute

Cutoff(now, hours) == now - Max(hours, 1) * Hour

MinuteOfHour(time) == (time \div Minute) % 60

\* The storage collaborator: removes the metrics older than the cutoff whose
\* minute of the hour is not excluded.
delete_metrics(metrics, cutoff, exclude_minutes) ==
    {time \in metrics : ~(time < cutoff /\ MinuteOfHour(time) \notin exclude_minutes)}

Unset == [set |-> FALSE]

Configured_as(value) == [set |-> TRUE, value |-> value]

\* The property collaborator, read at line 384: the configured value, which
\* may be null, or the default.
get_property(idx, default) ==
    IF p_override[idx].set THEN p_override[idx].value ELSE <<default>>

MaxStored == 2

MaxSweeps == 2

Tiers == 0..(Len(intervals) - 1)

\* The clock at the first sweep: on the hour, on a quarter, and off the minute.
Nows == {70100 * Hour + offset : offset \in {0, 15 * Minute, 15 * Minute + 5}}

\* Metric times around every tier's threshold, at minutes of each preserved set
\* and of none.
StoredTimes(now) ==
    {((now \div Hour) - hours) * Hour + minute * Minute :
        hours \in {1, 12, 13, 24, 25, 36, 37, 40, 48, 49, 50, 51,
                   24 * 365 * 8, 24 * 365 * 8 + 1},
        minute \in {0, 5, 7, 15, 30}}

RECURSIVE SubsetsUpTo(_, _)
SubsetsUpTo(S, n) ==
    IF n = 0 THEN {{}}
    ELSE LET smaller == SubsetsUpTo(S, n - 1)
         IN  smaller \cup {s \cup {x} : s \in smaller, x \in S}

NoOverride == [idx \in Tiers |-> Unset]

Overrides ==
    {NoOverride} \cup
    {[NoOverride EXCEPT ![idx] = Configured_as(value)] :
        idx \in Tiers, value \in {None, <<0>>, <<30>>}}

PurgeFaults == [idx : Tiers, at : {"property", "delete"}]

PurgeFaultAt(idx, at) ==
    p_fault # None /\ p_sweep = 1 /\ p_fault.idx = idx /\ p_fault.at = at

InitPurge ==
    /\ RateIdle /\ MetricIdle /\ WrapIdle /\ HistIdle
    /\ p_clock \in Nows
    /\ p_now = p_clock
    /\ p_override \in Overrides
    /\ p_fault \in {None} \cup PurgeFaults
    /\ p_override # NoOverride => p_fault = None
    /\ p_saved \in {StoredTimes(p_now)} \cup SubsetsUpTo(StoredTimes(p_now), MaxStored)
    /\ Cardinality(p_saved) <= MaxStored => (p_override = NoOverride /\ p_fault = None)
    /\ p_metrics = p_saved
    /\ p_pc = "idle" /\ p_sweep = 0 /\ p_idx = 0 /\ p_deletes = <<>>

\* line 380: a sweep begins
PurgeMetric ==
    /\ p_pc = "idle"
    /\ p_sweep < MaxSweeps
    /\ p_sweep' = p_sweep + 1
    /\ p_idx' = 0
    /\ p_deletes' = <<>>
    /\ p_now' = p_clock
    /\ p_pc' = "tiers"
    /\ UNCHANGED <<p_clock, p_metrics, purgeConf, rateVars, metricVars, wrapVars, histVars>>

\* lines 382-391: where purge_metric stands after the turn of tier idx; nothing
\* in it catches what the property lookup or the delete raises
TurnCaughtInLoop(raises, idx) ==
    [pc |-> IF idx + 1 = Len(intervals) THEN "returned" ELSE "tiers", idx |-> idx + 1]

Turn(raises, idx) ==
    IF raises THEN [pc |-> "raised", idx |-> idx]
    ELSE [pc |-> IF idx + 1 = Len(intervals) THEN "returned" ELSE "tiers", idx |-> idx + 1]

\* lines 380 and 389: every tier's cutoff is taken from the one reading of line 380
SweepNowReadAgain(now, clock) == clock

SweepNow(now, clock) == now

\* lines 382-393: one turn of the loop, which takes its time
PurgeTier ==
    /\ p_pc = "tiers"
    /\ LET entry  == intervals[p_idx + 1]
           hours  == get_property(p_idx, entry[1])
           cutoff == Cutoff(SweepNow(p_now, p_clock), hours[1])
           raises == \/ PurgeFaultAt(p_idx, "property")
                     \/ hours # None /\ PurgeFaultAt(p_idx, "delete")
       IN  /\ p_metrics' = IF raises \/ hours = None
                           THEN p_metrics
                           ELSE delete_metrics(p_metrics, cutoff, entry[2])
           /\ p_deletes' = IF raises \/ hours = None
                           THEN p_deletes
                           ELSE Append(p_deletes, [idx |-> p_idx, cutoff |-> cutoff,
                                                   exclude_minutes |-> entry[2]])
           /\ p_idx' = Turn(raises, p_idx).idx
           /\ p_pc' = Turn(raises, p_idx).pc
    /\ p_clock' = p_clock + 1
    /\ UNCHANGED <<p_now, p_sweep, purgeConf, rateVars, metricVars, wrapVars, histVars>>

\* lines 57-61: the loop takes the return or the exception, and sleeps
PurgeSleep ==
    /\ p_pc \in {"returned", "raised"}
    /\ p_sweep < MaxSweeps
    /\ p_clock' = p_clock + PurgeInterval
    /\ p_pc' = "idle"
    /\ UNCHANGED <<p_now, p_sweep, p_idx, p_metrics, p_deletes, purgeConf, rateVars, metricVars, wrapVars, histVars>>

NextPurge == PurgeMetric \/ PurgeTier \/ PurgeSleep

SpecPurge == InitPurge /\ [][NextPurge]_vars

(***************************************************************************)
(* Claims about purge_metric (SpecPurge).                                  *)
(***************************************************************************)
\* What is stated of a metric of age `age` (in seconds) at minute `minute`.
StatedSurvives(age, minute) ==
    IF age > 8 * 365 * 24 * Hour THEN FALSE
    ELSE IF age > 48 * Hour THEN minute = 0
    ELSE IF age > 36 * Hour THEN minute \in {0, 30}
    ELSE IF age > 24 * Hour THEN minute \in {0, 15, 30, 45}
    ELSE IF age > 12 * Hour THEN minute % 5 = 0
    ELSE TRUE

InEveryTierBelow(age, minute) ==
    \A k \in 1..Len(intervals) :
        age > intervals[k][1] * Hour => minute \in intervals[k][2]

FirstSweepDone ==
    /\ p_pc = "returned" /\ p_sweep = 1
    /\ p_override = NoOverride /\ p_fault = None

\* C5: after one complete sweep with the default tiers and no overrides, a metric
\* of age a at minute m of the hour is still in storage iff m is in the preserved
\* set of every tier whose threshold is below a: none beyond 8 years, beyond 48h
\* only m = 0, in (36h, 48h] only m in {0, 30}, in (24h, 36h] only m in
\* {0, 15, 30, 45}, in (12h, 24h] only m divisible by 5, and all of at most 12h.
C5_Retention ==
    FirstSweepDone =>
        \A time \in p_saved :
            /\ time \in p_metrics <=> StatedSurvives(p_now - time, MinuteOfHour(time))
            /\ time \in p_metrics <=> InEveryTierBelow(p_now - time, MinuteOfHour(time))

\* A sweep has deleted the metric of age 50h at minute 15 and kept the one of
\* 50h 15min at minute 0.
C5_Witness ==
    /\ FirstSweepDone
    /\ p_saved = {p_now - 50 * Hour, p_now - 50 * Hour - 15 * Minute}
    /\ MinuteOfHour(p_now - 50 * Hour) = 15
    /\ p_metrics = {p_now - 50 * Hour - 15 * Minute}

\* A sweep has deleted the metrics of age 40h and of age 50h at minute 15.
C5_Examples ==
    /\ FirstSweepDone
    /\ p_saved = {p_now - 40 * Hour, p_now - 50 * Hour}
    /\ MinuteOfHour(p_now) = 15
    /\ p_metrics = {}

(***************************************************************************)
(* _execute (lines 32-47) and _wrap (lines 49-61): two threads, each a     *)
(* loop around its unit of work.  The unit of work is taken by how it      *)
(* ends: it returns, or raises an Exception, or raises a BaseException     *)
(* that is no Exception (SystemExit, KeyboardInterrupt, GeneratorExit).    *)
(***************************************************************************)
\* line 37: the interval of the metric loop
MetricInterval == 20

\* lines 36-39: (func, interval) per thread
threads ==
    << <<"process_metric", MetricInterval>>,
       <<"purge_metric", PurgeInterval>> >>

Loops == 1..Len(threads)

Outcomes == {"returned", "Exception", "BaseException"}

\* line 57: what the except clause catches
CatchesException(outcome) == outcome = "Exception"

Catches(outcome) == outcome \in {"Exception", "BaseException"}

InitWrap ==
    /\ RateIdle /\ MetricIdle /\ PurgeIdle /\ HistIdle
    /\ e_pc = "new" /\ e_started = 0 /\ e_joined = 0
    /\ w_closed \in BOOLEAN
    /\ w_pc = [l \in Loops |-> "new"]
    /\ w_outcome = [l \in Loops |-> "none"]
    /\ w_retry = [l \in Loops |-> FALSE]
    /\ w_sleep = [l \in Loops |-> 0]

\* lines 32-39
Execute ==
    /\ e_pc = "new"
    /\ e_pc' = "starting"
    /\ UNCHANGED <<e_started, e_joined, w_closed, w_pc, w_outcome, w_retry, w_sleep,
                   rateVars, metricVars, purgeVars, histVars>>

\* lines 41-42
ThreadStart ==
    /\ e_pc = "starting"
    /\ w_pc' = [w_pc EXCEPT ![e_started + 1] = "check"]
    /\ e_started' = e_started + 1
    /\ e_pc' = IF e_started + 1 = Len(threads) THEN "joining" ELSE "starting"
    /\ UNCHANGED <<e_joined, w_closed, w_outcome, w_retry, w_sleep,
                   rateVars, metricVars, purgeVars, histVars>>

\* The closing of the context, by whoever holds it.
Close ==
    /\ ~w_closed
    /\ w_closed' = TRUE
    /\ UNCHANGED <<e_pc, e_started, e_joined, w_pc, w_outcome, w_retry, w_sleep,
                   rateVars, metricVars, purgeVars, histVars>>

\* line 51, and the call of line 55 when the loop goes on
IsClosedNotPolled(l) ==
    /\ w_pc[l] = "check"
    /\ w_pc' = [w_pc EXCEPT ![l] = "work"]
    /\ w_retry' = [w_retry EXCEPT ![l] = w_outcome[l] \in Outcomes \ {"returned"}]
    /\ w_outcome' = [w_outcome EXCEPT ![l] = "none"]
    /\ UNCHANGED <<e_pc, e_started, e_joined, w_closed, w_sleep,
                   rateVars, metricVars, purgeVars, histVars>>

IsClosed(l) ==
    /\ w_pc[l] = "check"
    /\ w_pc' = [w_pc EXCEPT ![l] = IF w_closed THEN "exit" ELSE "work"]
    /\ w_retry' = [w_retry EXCEPT ![l] = ~w_closed /\ w_outcome[l] \in Outcomes \ {"returned"}]
    /\ w_outcome' = [w_outcome EXCEPT ![l] = IF w_closed THEN @ ELSE "none"]
    /\ UNCHANGED <<e_pc, e_started, e_joined, w_closed, w_sleep,
                   rateVars, metricVars, purgeVars, histVars>>

\* lines 53-61: func() ends, the except clause takes what it catches, and the
\* sleep begins; what it does not catch ends the thread
FuncEnds(l) ==
    /\ w_pc[l] = "work"
    /\ \E outcome \in Outcomes :
          /\ w_outcome' = [w_outcome EXCEPT ![l] = outcome]
          /\ IF outcome = "returned" \/ Catches(outcome)
             THEN /\ w_pc' = [w_pc EXCEPT ![l] = "sleep"]
                  /\ w_sleep' = [w_sleep EXCEPT ![l] = threads[l][2]]
             ELSE /\ w_pc' = [w_pc EXCEPT ![l] = "exit"]
                  /\ w_sleep' = w_sleep
    /\ UNCHANGED <<e_pc, e_started, e_joined, w_closed, w_retry,
                   rateVars, metricVars, purgeVars, histVars>>

\* line 61: the sleep returns
SleepReturns(l) ==
    /\ w_pc[l] = "sleep"
    /\ w_pc' = [w_pc EXCEPT ![l] = "check"]
    /\ w_sleep' = [w_sleep EXCEPT ![l] = 0]
    /\ UNCHANGED <<e_pc, e_started, e_joined, w_closed, w_outcome, w_retry,
                   rateVars, metricVars, purgeVars, histVars>>

\* lines 44-47: join returns once the thread has ended; after the last, 'Terminated'
ThreadJoin ==
    /\ e_pc = "joining"
    /\ w_pc[e_joined + 1] = "exit"
    /\ e_joined' = e_joined + 1
    /\ e_pc' = IF e_joined + 1 = Len(threads) THEN "terminated" ELSE "joining"
    /\ UNCHANGED <<e_started, w_closed, w_pc, w_outcome, w_retry, w_sleep,
                   rateVars, metricVars, purgeVars, histVars>>

NextWrap ==
    \/ Execute
    \/ ThreadStart
    \/ Close
    \/ \E l \in Loops : IsClosed(l)
    \/ \E l \in Loops : FuncEnds(l)
    \/ \E l \in Loops : SleepReturns(l)
    \/ ThreadJoin

\* A started thread is scheduled, and a sleep ends; the unit of work need not.
SpecWrap ==
    /\ InitWrap /\ [][NextWrap]_vars
    /\ \A l \in Loops : WF_vars(IsClosed(l)) /\ WF_vars(SleepReturns(l))

(***************************************************************************)
(* Claims about the loops (SpecWrap).                                      *)
(***************************************************************************)
Failed(l) == w_outcome[l] \in {"Exception", "BaseException"}

Sleeping(l) == w_pc[l] = "sleep" /\ w_sleep[l] = (IF l = 1 THEN 20 ELSE 3600)

\* C10: whatever the unit of work of a loop raises is caught and does not end the
\* loop: the step in which the iteration fails begins the sleep of the loop's
\* interval (20s for process_metric, 3600s for purge_metric), a loop ends only on
\* the shutdown signal, and after a failure the loop comes to run the unit of work
\* again unless the shutdown signal is set.
C10_FailureNeverEndsLoop ==
    /\ [][\A l \in Loops : Failed(l)' /\ ~Failed(l) => Sleeping(l)']_vars
    /\ [](\A l \in Loops : w_pc[l] = "exit" => w_closed)
    /\ \A l \in Loops : Failed(l) ~> ((w_pc[l] = "work" /\ w_retry[l]) \/ w_closed)

\* Both loops run their unit of work again after an iteration that failed.
C10_Witness ==
    /\ ~w_closed
    /\ \A l \in Loops : w_pc[l] = "work" /\ w_retry[l]

(***************************************************************************)
(* Further claims about process_metric and the builders (SpecMetric).      *)
(***************************************************************************)
AllDone == \A k \in 1..Len(m_thread) : m_thread[k].state = "done"

EveryBuilderHasThread ==
    \A i \in 1..m_count : \A kind \in Builders :
        \E k \in 1..Len(m_thread) : m_thread[k].target = <<i, kind>>

\* C11: process_metric returns only after every builder thread it started, four
\* per timestamp of the batch, has finished, whether the builder saved or failed;
\* and no builder of a call is still running when the next call begins.
C11_ReturnsAfterBuilders ==
    /\ [](m_pc = "returned" =>
            /\ Len(m_thread) = 4 * m_count
            /\ EveryBuilderHasThread
            /\ AllDone)
    /\ [][m_call' # m_call => AllDone]_vars

\* A call over two timestamps, one of whose builders failed, has returned.
C11_Witness ==
    /\ m_pc = "returned"
    /\ m_count = 2
    /\ BuilderFault
    /\ Len(m_thread) = 8
    /\ AllDone

(***************************************************************************)
(* Further claims about the rate table (SpecRate).                         *)
(***************************************************************************)
OfKey(tickers, i, site, code) ==
    tickers[i].ticker.tk_site = site /\ tickers[i].ticker.tk_code = code

\* The last record of the key with a non-zero price; 0 when there is none.
LastPriced(tickers, site, code) ==
    LET priced == {i \in 1..Len(tickers) :
                      OfKey(tickers, i, site, code) /\ SomePresent(tickers[i].ticker)}
    IN  IF priced = {} THEN 0 ELSE CHOOSE i \in priced : \A j \in priced : j <= i

\* C12: an all-zero record leaves what the table holds for its (site, code) as it
\* is: after the batch the table holds for every key the price of the key's last
\* record that had a non-zero price, and nothing for a key without such a record.
C12_ZeroRecordLeavesTable ==
    r_pc # "input" =>
        \A site \in Sites : \A code \in Codes :
            LET last == LastPriced(r_tickers, site, code)
            IN  Stored(r_prices.table, site, code) =
                    (IF last = 0 THEN None ELSE StatedPrice(r_tickers[last].ticker))

\* The table after a priced record followed by an all-zero record of the same key
\* holds None for the key.
C12_Overwritten ==
    /\ r_pc = "priced"
    /\ Len(r_tickers) = 2
    /\ OfKey(r_tickers, 1, "siteA", "BTC") /\ OfKey(r_tickers, 2, "siteA", "BTC")
    /\ StatedPrice(r_tickers[1].ticker) = Dec(3)
    /\ ~SomePresent(r_tickers[2].ticker)
    /\ "BTC" \in DOMAIN r_prices.table["siteA"]
    /\ r_prices.table["siteA"]["BTC"] = None

(***************************************************************************)
(* main_historical (lines 404-419): the walk from the start of the month   *)
(* to the current time, one process_metric call per step.  Time is in      *)
(* seconds; a month is taken as 30 days, which only places the anchor.     *)
(***************************************************************************)
MaxTicks == 1

Month == 30 * 24 * Hour

\* line 411: replace(day=1, hour=0, minute=0, second=0, microsecond=0)
MonthStart(now) == now - (now % Month)

\* line 67: the property 'timestamp', or default_count where it is not configured
Count(configured, default_count) ==
    IF configured # None THEN configured[1] ELSE default_count

\* The clock when main_historical begins: at the start of the month, on a step
\* of the walk, and between two steps.
HistoricalNows == {Month, Month + 2 * Hour, Month + Hour + 17 * Minute + 5}

InitHistorical ==
    /\ RateIdle /\ PurgeIdle /\ WrapIdle
    /\ h_pc = "new"
    /\ h_property \in {None, <<1>>, <<2>>}
    /\ h_now \in HistoricalNows
    /\ h_ticks = 0
    /\ h_timestamp = 0
    /\ h_steps = <<>>
    /\ m_base = Month + Hour
    /\ m_count = Count(h_property, 1)
    /\ m_threshold = DefaultThreshold
    /\ m_fault \in {None} \cup {f \in Faults(1) : f.kind \in {"ticker", "balance"}}
    /\ m_focus = "ticker"
    /\ m_extra = <<>>
    /\ m_pc = "idle" /\ m_call = 0 /\ m_timestamps = <<>> /\ m_i = 0
    /\ m_prices = <<>> /\ m_thread = <<>> /\ m_started = 0 /\ m_joined = 0
    /\ m_save = [key \in SaveKeys |-> NotCalled]

\* line 411
HistoricalAnchor ==
    /\ h_pc = "new"
    /\ h_timestamp' = MonthStart(h_now)
    /\ h_pc' = "check"
    /\ UNCHANGED <<h_property, h_now, h_ticks, h_steps, rateVars, metricVars, purgeVars, wrapVars>>

\* The time that passes while the walk goes on.
HistoricalTick ==
    /\ h_pc = "check"
    /\ h_steps # <<>>
    /\ h_ticks < MaxTicks
    /\ h_now' = h_now + Hour
    /\ h_ticks' = h_ticks + 1
    /\ UNCHANGED <<h_pc, h_property, h_timestamp, h_steps, rateVars, metricVars, purgeVars, wrapVars>>

\* lines 413-417: the test of the loop, and the call of process_metric with
\* default_time = timestamp and default_count = 1 up to line 73
HistoricalCheck ==
    /\ h_pc = "check"
    /\ IF h_timestamp >= h_now
       THEN /\ h_pc' = "done"
            /\ UNCHANGED <<h_steps, metricRun>>
       ELSE /\ h_pc' = "step"
            /\ m_call' = 1
            /\ m_timestamps' = Timestamps(BaseTime(<<h_timestamp>>, h_now), m_count)
            /\ h_steps' = Append(h_steps, [default_time |-> h_timestamp,
                                           timestamps |-> m_timestamps'])
            /\ m_i' = 0
            /\ m_prices' = <<>>
            /\ m_thread' = <<>>
            /\ m_started' = 0
            /\ m_joined' = 0
            /\ m_save' = [key \in SaveKeys |-> NotCalled]
            /\ m_pc' = "tickers"
    /\ UNCHANGED <<h_property, h_now, h_ticks, h_timestamp, metricConf, rateVars, purgeVars, wrapVars>>

\* line 419, once process_metric has returned
HistoricalAdvance ==
    /\ h_pc = "step"
    /\ m_pc = "returned"
    /\ h_timestamp' = h_timestamp + 60 * Minute
    /\ h_pc' = "check"
    /\ UNCHANGED <<h_property, h_now, h_ticks, h_steps, rateVars, metricVars, purgeVars, wrapVars>>

NextHistorical ==
    \/ HistoricalAnchor
    \/ HistoricalTick
    \/ HistoricalCheck
    \/ HistoricalAdvance
    \/ ProcessTicker
    \/ StartThread
    \/ ProcessBalance
    \/ ProcessPosition
    \/ ProcessTransactionTrade
    \/ ProcessTransactionVolume
    \/ JoinThread
    \/ ProcessMetricReturn

SpecHistorical == InitHistorical /\ [][NextHistorical]_vars

(***************************************************************************)
(* Claims about main_historical (SpecHistorical).                          *)
(***************************************************************************)
\* The steps are taken at the anchor plus k x 60 minutes, in increasing order.
StepsFromAnchor ==
    \A k \in 1..Len(h_steps) :
        h_steps[k].default_time = MonthStart(h_now) + (k - 1) * 60 * Minute

\* A step begins, and the walk ends, only with every builder of the step before
\* it finished.
StepsInSequence == h_pc \in {"check", "done"} => AllDone

\* The walk goes on while the timestamp is earlier than the current time, and
\* ends at the first one that is not.
StopsAtNow ==
    /\ \A k \in 1..Len(h_steps) : h_steps[k].default_time < h_now
    /\ h_pc = "done" =>
          /\ h_timestamp >= h_now
          /\ h_timestamp = MonthStart(h_now) + Len(h_steps) * 60 * Minute

OneTimestampPerStep ==
    \A k \in 1..Len(h_steps) : h_steps[k].timestamps = <<h_steps[k].default_time>>

\* C13: every step of the backfill processes exactly one timestamp, the steps are
\* taken at the start of the month plus k x 60 minutes in increasing order, a
\* step begins only after every builder of the step before it has finished, and
\* the walk ends at the first timestamp that is not earlier than the current time.
C13_Backfill ==
    /\ OneTimestampPerStep
    /\ StepsFromAnchor
    /\ StepsInSequence
    /\ StopsAtNow

\* What holds of the walk whatever the property 'timestamp' is.
C13_Walk == StepsFromAnchor /\ StepsInSequence /\ StopsAtNow

\* What holds of the steps where the property 'timestamp' is not configured.
C13_Unconfigured == h_property = None => OneTimestampPerStep

\* A walk with the property 'timestamp' configured as 2 has ended after steps of
\* two timestamps each.
C13_TwoPerStep ==
    /\ h_pc = "done"
    /\ h_property = <<2>>
    /\ Len(h_steps) = 2
    /\ \A k \in 1..Len(h_steps) :
          h_steps[k].timestamps = <<h_steps[k].default_time, h_steps[k].default_time - Minute>>

(***************************************************************************)
(* Claims about the tasks of one process_metric call (SpecMetric).         *)
(***************************************************************************)
\* A ticker fetch of the batch is still to come.
TickerPending == m_pc = "tickers" /\ 0 < m_i /\ m_i < m_count

BuilderCanRun ==
    ENABLED (StartThread \/ ProcessBalance \/ ProcessPosition
             \/ ProcessTransactionTrade \/ ProcessTransactionVolume)

\* C14: the ticker fetch of each timestamp is a task of its own, so that while
\* the ticker fetch of one timestamp is still to come the builders of a
\* timestamp whose ticker fetch is over can run beside it.
C14_TickerFetchInParallel == TickerPending => BuilderCanRun

\* What the code does: while a ticker fetch is still to come no thread has been
\* started, and every ticker fetch is over when the first thread starts.
C14_TickersThenThreads ==
    /\ m_pc = "tickers" => \A k \in 1..Len(m_thread) : m_thread[k].state = "new"
    /\ (\E k \in 1..Len(m_thread) : m_thread[k].state # "new") => m_i = m_count

\* The ticker fetch of the second timestamp is still to come, the threads of the
\* first exist, and none of them has been started.
C14_Sequential ==
    /\ TickerPending
    /\ Len(m_thread) = 4
    /\ ~BuilderCanRun

\* The table process_ticker built for the i-th timestamp of the call.
BuiltTable(i) ==
    IF FaultAt(i, "ticker", "fetch")
    THEN NoPrices
    ELSE PricesOf(_calculate_prices(fetch_tickers(m_timestamps[i])))

\* C15: the rate table of a timestamp is built before any builder of the
\* timestamp exists, and it is the table process_ticker built at every moment
\* after: no builder and no lookup, also of a site or code it does not hold,
\* adds, removes or changes an entry, in any interleaving of the builders.
C15_TableReadOnly ==
    /\ \A k \in 1..Len(m_thread) : m_thread[k].target[1] <= Len(m_prices)
    /\ \A i \in 1..Len(m_prices) : m_prices[i] = BuiltTable(i)

\* Every builder of a call has run, among them the balance builder that looked
\* up a site the table does not hold, and the table is as it was built.
C15_Witness ==
    /\ m_pc = "returned"
    /\ m_fault = None
    /\ AllDone
    /\ "siteC" \in BalanceSought(m_prices[1], fetch_balances(m_timestamps[1]))
    /\ "siteC" \notin DOMAIN m_prices[1].table
    /\ m_prices[1] = BuiltTable(1)

(***************************************************************************)
(* Further claims about the loops (SpecWrap).                              *)
(***************************************************************************)
\* C16: the shutdown signal is read only between two iterations: once is_closed()
\* is true no loop starts a further unit of work, a unit of work in progress is
\* followed by its sleep, after which the loop exits, and _execute reaches
\* 'Terminated' only after both loops have exited.
C16_ShutdownBetweenIterations ==
    /\ [][\A l \in Loops : (w_pc'[l] = "work" /\ w_pc[l] # "work") => ~w_closed]_vars
    /\ [][\A l \in Loops : (w_pc[l] = "work" /\ w_pc'[l] # "work") => Sleeping(l)']_vars
    /\ [](e_pc = "terminated" => \A l \in Loops : w_pc[l] = "exit")
    /\ \A l \in Loops : (w_closed /\ w_pc[l] \in {"sleep", "check"}) ~> (w_pc[l] = "exit")

\* The signal came while both loops were at work; both have finished the unit of
\* work and exited, and _execute has terminated.
C16_Witness ==
    /\ e_pc = "terminated"
    /\ w_closed
    /\ \A l \in Loops : w_pc[l] = "exit" /\ w_outcome[l] \in Outcomes

(***************************************************************************)
(* Claims about a failed ticker fetch and about metric identities          *)
(* (SpecMetric).                                                           *)
(***************************************************************************)
Among(metrics, metric) == \E j \in 1..Len(metrics) : metrics[j] = metric

\* The balance records whose chain has no leg are among what was saved.
NoLegBalancesSaved(i) ==
    LET values == fetch_balances(m_timestamps[i])
    IN  \A n \in 1..Len(values) :
            (/\ values[n].account # None
             /\ values[n].balance.bc_amnt # None
             /\ values[n].evaluation = NoEvaluation)
            => Among(SaveOf(i, "balance").metrics,
                     Metric("balance", values[n].account.ac_disp, m_timestamps[i],
                            values[n].balance.bc_amnt))

\* C17: when fetch_tickers raises for a timestamp, every builder of the timestamp
\* that has run has made its save_metrics call, and a balance record whose chain
\* has no leg is among the metrics saved, whatever else was fetched with it.
C17_TickerFailureIsolated ==
    \A i \in 1..Len(m_prices) :
        FaultAt(i, "ticker", "fetch") =>
            /\ \A kind \in Builders :
                  (Finished(i, kind) /\ ~FaultAt(i, kind, "fetch")) => SaveOf(i, kind).called
            /\ Finished(i, "balance") => NoLegBalancesSaved(i)

\* What the code does after a failed ticker fetch: a builder saves only when no
\* fetched record has a chain with a leg.
C17_SavesOnlyWithoutLegs ==
    \A i \in 1..Len(m_prices) :
        FaultAt(i, "ticker", "fetch") =>
            /\ Finished(i, "balance") => ~SaveOf(i, "balance").called
            /\ Finished(i, "position") => ~SaveOf(i, "position").called
            /\ Finished(i, "trade") => ~SaveOf(i, "trade").called
            /\ Finished(i, "volume") => SaveOf(i, "volume").called

\* After a failed ticker fetch all four builders have run, and the balance
\* builder has saved nothing although the record 'cold' has a chain without legs.
C17_Lost ==
    /\ m_pc = "returned"
    /\ FaultAt(1, "ticker", "fetch")
    /\ AllDone
    /\ fetch_balances(m_timestamps[1])[1].evaluation = NoEvaluation
    /\ ~SaveOf(1, "balance").called

Identity(metric) == <<metric.mc_type, metric.mc_name, metric.mc_time>>

\* The metrics handed to save_metrics in the call in progress, as (timestamp
\* index, kind, position in the list).
Handed ==
    IF m_call = 0
    THEN {}
    ELSE UNION { {<<i, kind, j>> : j \in 1..Len(SaveOf(i, kind).metrics)}
               : i \in 1..m_count, kind \in AllKinds }

MetricAt(h) == SaveOf(h[1], h[2]).metrics[h[3]]

\* C18: within one process_metric call no two metrics handed to save_metrics
\* carry the same (kind, name, timestamp), whatever was fetched, also with several
\* transaction records of one product in a window.
C18_WriteOnce ==
    \A g \in Handed : \A h \in Handed :
        g # h => Identity(MetricAt(g)) # Identity(MetricAt(h))

\* Two transaction records of the product BTC/USD in the window MTD have given
\* two metrics trade@MTD of one name and one timestamp, with different amounts.
C18_Duplicate ==
    /\ m_call > 0
    /\ \E j \in 1..Len(SaveOf(1, "trade").metrics) : \E k \in 1..Len(SaveOf(1, "trade").metrics) :
           /\ j # k
           /\ Identity(SaveOf(1, "trade").metrics[j]) = <<"trade@MTD", "BTC/USD", m_timestamps[1]>>
           /\ Identity(SaveOf(1, "trade").metrics[k]) = <<"trade@MTD", "BTC/USD", m_timestamps[1]>>
           /\ SaveOf(1, "trade").metrics[j].mc_amnt # SaveOf(1, "trade").metrics[k].mc_amnt

(***************************************************************************)
(* Claims about the tiers of one sweep (SpecPurge).                        *)
(***************************************************************************)
\* The stated default thresholds, in hours, and preserved minutes, in tier order.
StatedTiers ==
    << <<70080, {}>>, <<48, {0}>>, <<36, {0, 30}>>,
       <<24, {0, 15, 30, 45}>>, <<12, {0, 5, 10, 15, 20, 25, 30, 35, 40, 45, 50, 55}>> >>

\* The threshold of tier idx: the configured value, null included, or the default.
Threshold(idx) ==
    IF p_override[idx].set THEN p_override[idx].value ELSE <<StatedTiers[idx + 1][1]>>

AtLeastOne(hours) == IF hours < 1 THEN 1 ELSE hours

\* The delete stated for tier idx in a sweep that read `now`.
StatedDelete(idx, now) ==
    [idx |-> idx,
     cutoff |-> now - AtLeastOne(Threshold(idx)[1]) * 3600,
     exclude_minutes |-> StatedTiers[idx + 1][2]]

\* The tiers below n whose threshold is not null, in tier order.
TiersWithThreshold(n) ==
    SelectSeq([k \in 1..n |-> k - 1], LAMBDA idx : Threshold(idx) # None)

StatedDeletes(n, now) ==
    [j \in 1..Len(TiersWithThreshold(n)) |-> StatedDelete(TiersWithThreshold(n)[j], now)]

\* C19: while a sweep has not raised, the deletes it has issued are, in tier
\* order, exactly one for every tier passed whose threshold is not null, each
\* with cutoff = now - max(threshold, 1) hours for the one `now` the sweep read
\* and with that tier's own preserved minutes; a tier with a null threshold gets
\* no delete and stops no other tier.
C19_TiersIndependent ==
    p_pc \in {"tiers", "returned"} =>
        /\ p_deletes = StatedDeletes(p_idx, p_now)
        /\ p_pc = "returned" => p_idx = 5
        /\ \A idx \in Tiers :
              Threshold(idx) = None => \A k \in 1..Len(p_deletes) : p_deletes[k].idx # idx

\* A sweep has returned with the threshold of the third tier null: four deletes,
\* for the tiers before it and after it, while the clock went on.
C19_Witness ==
    /\ p_pc = "returned" /\ p_sweep = 1
    /\ p_override[2] = Configured_as(None)
    /\ Len(p_deletes) = 4
    /\ <<p_deletes[1].idx, p_deletes[2].idx, p_deletes[3].idx, p_deletes[4].idx>> = <<0, 1, 3, 4>>
    /\ p_deletes[4].cutoff = p_now - 12 * 3600
    /\ p_clock > p_now

\* A threshold configured as 0 has been taken as one hour.
C19_Floor ==
    /\ p_pc = "returned"
    /\ p_override[4] = Configured_as(<<0>>)
    /\ p_deletes[5].cutoff = p_now - 3600

RECURSIVE AfterDeletes(_, _)
\* Storage after the first n of the sweep's deletes.
AfterDeletes(metrics, n) ==
    IF n = 0 THEN metrics
    ELSE LET d == p_deletes[n]
         IN  {time \in AfterDeletes(metrics, n - 1) :
                 time >= d.cutoff \/ MinuteOfHour(time) \in d.exclude_minutes}

FaultySweep == p_fault # None /\ p_sweep = 1

\* C20: when the property lookup or the delete of tier i raises, the sweep issues
\* no delete for tier i or any tier after it: purge_metric is left at once with
\* the deletes of the tiers before i in effect, the next thing to happen is the
\* loop's sleep of 3600 seconds, and only the sweep after it takes the tiers up
\* again, all of them, on storage that has kept the earlier deletes.
C20_RaiseEndsSweep ==
    /\ [](FaultySweep =>
            /\ \A k \in 1..Len(p_deletes) : p_deletes[k].idx < p_fault.idx
            /\ p_pc # "returned"
            /\ p_idx <= p_fault.idx)
    /\ [](FaultySweep /\ p_pc = "raised" =>
            /\ p_idx = p_fault.idx
            /\ p_deletes = StatedDeletes(p_fault.idx, p_now)
            /\ p_metrics = AfterDeletes(p_saved, Len(p_deletes)))
    /\ [][FaultySweep /\ p_pc = "raised" =>
            /\ p_pc' = "idle"
            /\ p_clock' = p_clock + 3600
            /\ UNCHANGED <<p_deletes, p_metrics, p_sweep>>]_vars
    /\ [][/\ p_metrics' \subseteq p_metrics
          /\ p_sweep' # p_sweep => p_pc = "idle" /\ p_now' = p_clock]_vars
    /\ [](p_fault # None /\ p_sweep = 2 /\ p_pc = "returned" =>
            /\ p_deletes = StatedDeletes(5, p_now)
            /\ p_metrics = AfterDeletes(p_metrics, 5))

\* The delete of the third tier raised in the first sweep, after the deletes of
\* the first two tiers, and the second sweep has issued all five.
C20_Witness ==
    /\ p_fault = [idx |-> 2, at |-> "delete"]
    /\ p_sweep = 2 /\ p_pc = "returned"
    /\ Len(p_deletes) = 5
    /\ p_now > 70100 * Hour + 3600

\* The first sweep has been left by the raise with two deletes issued.
C20_Raised ==
    /\ p_fault = [idx |-> 2, at |-> "property"]
    /\ p_sweep = 1 /\ p_pc = "raised"
    /\ Len(p_deletes) = 2

====
